---- MODULE Spec2Model ----
(***************************************************************************)
(* Model of the heuristic detectors of backend/models: the audio, image    *)
(* and video analysis pipelines (audio_detector.py, image_detector.py,     *)
(* deepfake_detector.py).  One analysis runs at a time: the analyze        *)
(* coroutines contain no await, so each runs to completion on the event    *)
(* loop.  Every step of a pipeline is one action, taken in source order.   *)
(*                                                                         *)
(* Floating-point values are modelled as exact rationals <<n, d>> with     *)
(* d > 0 in lowest terms; <<0, 0>> is NaN.  The raw measurements that numpy *)
(* and OpenCV take from the signal (a spectral centroid, a Laplacian       *)
(* variance, ...) are inputs drawn from small sets; the score formulas the  *)
(* code applies to them are computed as the code computes them.            *)
(***************************************************************************)
EXTENDS Integers, Sequences, FiniteSets, TLC

VARIABLES pc, media, sub, failed, vid, overall_score, result, detector, locals,
          users, requests

vars == <<pc, media, sub, failed, vid, overall_score, result, detector, locals,
          users, requests>>

-----------------------------------------------------------------------------
(* Bounds of the model *)

MaxFrames == 2

MaxFaces == 2

MaxPlainFrames == 90

-----------------------------------------------------------------------------
(* Float arithmetic as exact rationals, with NaN *)

Nan == <<0, 0>>

IsNan(a) == a[2] = 0

AbsI(n) == IF n < 0 THEN -n ELSE n

RECURSIVE GCD(_, _)
GCD(a, b) == IF b = 0 THEN a ELSE GCD(b, a % b)

Norm(n, d) == LET g == GCD(AbsI(n), d) IN <<n \div g, d \div g>>

R(n, d) == Norm(n, d)

I(n) == <<n, 1>>

Zero == I(0)

One == I(1)

Add(a, b) ==
    IF IsNan(a) \/ IsNan(b) THEN Nan
    ELSE Norm(a[1] * b[2] + b[1] * a[2], a[2] * b[2])

Neg(a) == IF IsNan(a) THEN Nan ELSE <<-a[1], a[2]>>

Sub(a, b) == Add(a, Neg(b))

Mul(a, b) ==
    IF IsNan(a) \/ IsNan(b) THEN Nan
    ELSE Norm(a[1] * b[1], a[2] * b[2])

\* a / b for b > 0
Div(a, b) ==
    IF IsNan(a) \/ IsNan(b) THEN Nan
    ELSE Norm(a[1] * b[2], a[2] * b[1])

AbsR(a) == IF IsNan(a) THEN Nan ELSE <<AbsI(a[1]), a[2]>>

\* every comparison with NaN is false
Lt(a, b) == ~IsNan(a) /\ ~IsNan(b) /\ a[1] * b[2] < b[1] * a[2]

Gt(a, b) == Lt(b, a)

Le(a, b) == ~IsNan(a) /\ ~IsNan(b) /\ a[1] * b[2] <= b[1] * a[2]

\* Python's builtin min(a, b): the first argument unless the second is smaller
PyMin(a, b) == IF Lt(b, a) THEN b ELSE a

\* Python's builtin max(a, b): the first argument unless the second is greater
PyMax(a, b) == IF Gt(b, a) THEN b ELSE a

InUnit(a) == Le(Zero, a) /\ Le(a, One)

\* round a >= 0 to the nearest integer, ties to even (format spec .2f / .2%)
RoundHalfEven(a) ==
    LET q == a[1] \div a[2]
        r == a[1] % a[2]
    IN  IF 2 * r < a[2] THEN q
        ELSE IF 2 * r > a[2] THEN q + 1
        ELSE IF q % 2 = 0 THEN q ELSE q + 1

Fixed2(a) ==
    LET n == RoundHalfEven(Mul(a, I(100)))
    IN  ToString(n \div 100) \o "." \o (IF n % 100 < 10 THEN "0" ELSE "")
            \o ToString(n % 100)

\* f"{x:.2%}"
Pct(a) == Fixed2(Mul(a, I(100))) \o "%"

\* number of values in range(0, stop, step)
RangeLen(stop, step) == IF stop <= 0 THEN 0 ELSE (stop + step - 1) \div step

\* " | ".join(explanations)
RECURSIVE Join(_)
Join(s) ==
    IF Len(s) = 0 THEN ""
    ELSE IF Len(s) = 1 THEN s[1]
    ELSE s[1] \o " | " \o Join(Tail(s))

Append1(s, cond, x) == IF cond THEN Append(s, x) ELSE s

-----------------------------------------------------------------------------
(* Shared shapes *)

NoMedia == [kind |-> "none"]

NoResult == [pending |-> TRUE]

NoSub == <<>>

\* The locals of an extractor call that has just returned; they are gone when
\* the next statement of analyze runs.
NoLocals == <<>>

\* the except branch of the three analyze methods
ErrorResult(msg) == [error |-> msg, is_deepfake |-> FALSE, confidence |-> Zero]

IsError(r) == "error" \in DOMAIN r

IsSuccess(r) == "details" \in DOMAIN r

Put(f, k, v) == [x \in DOMAIN f \cup {k} |-> IF x = k THEN v ELSE f[x]]

-----------------------------------------------------------------------------
(* audio_detector.py *)

sample_rate == 16000

\* A WAV file the wave module can read: its frame rate and frame count.
WavRates == {8000, 16000, 48000}

WavFrames == {0, 1, 400, 64000, 80000}

\* The samples of a WAV file: the sample width in bytes and the smallest and
\* largest decoded integer among the samples the loader keeps.  <<2, 0, 0>> is
\* 16-bit silence; the others are full-scale signals.
WavSamples == {<<2, 0, 0>>, <<2, -32768, 32767>>, <<1, 0, 255>>}

\* np.iinfo(audio_data.dtype).max for int16 and for uint8
iinfo_max(sampwidth) == IF sampwidth = 2 THEN 32767 ELSE 255

\* audio_data.astype(np.float32) / np.iinfo(audio_data.dtype).max, on one sample
normalize(sample, sampwidth) == R(sample, iinfo_max(sampwidth))

\* A file wave.open rejects, read as raw float32: the number of floats in it.
RawFloats == {0, 400, 64000, 1000000}

\* What _load_audio returns: the path that produced the waveform,
\* len(audio_data) and the smallest and largest sample (lo, hi; NaN where the
\* model does not follow them); path "none" is the return value None (both
\* paths failed).
load_audio(file) ==
    IF file.kind = "wav"
    THEN LET step == IF file.rate # sample_rate
                     THEN (IF file.rate \div sample_rate > 1
                           THEN file.rate \div sample_rate ELSE 1)
                     ELSE 1
         IN  [kind |-> "audio", path |-> "wav", rate |-> file.rate,
              n_frames |-> file.n_frames,
              len |-> RangeLen(file.n_frames, step),
              lo |-> normalize(file.lo, file.sampwidth),
              hi |-> normalize(file.hi, file.sampwidth)]
    ELSE IF file.kind = "raw"
    THEN [kind |-> "audio", path |-> "raw", rate |-> 0, n_frames |-> 0,
          len |-> IF file.floats < sample_rate * 60 THEN file.floats
                  ELSE sample_rate * 60,
          lo |-> Nan, hi |-> Nan]
    ELSE [kind |-> "audio", path |-> "none", rate |-> 0, n_frames |-> 0, len |-> 0,
          lo |-> Nan, hi |-> Nan]

\* every sample of the loaded waveform is 0.0
Silent(audio) == audio.path = "wav" /\ audio.lo = Zero /\ audio.hi = Zero

\* the detector object after _load_audio, had line 72 bound the field instead
\* of a local
self_after_load_audio_rebinds(self, file) ==
    IF file.kind = "wav" THEN [self EXCEPT !.sample_rate = file.rate] ELSE self

\* The detector object after _load_audio: line 72 binds the local sample_rate;
\* the field self.sample_rate is read (lines 86, 87, 95) and never assigned.
self_after_load_audio(self, file) == self

\* audio_data is None, without the test for an empty waveform
audio_load_failed_none_only(audio_data) == audio_data.path = "none"

\* audio_data is None or len(audio_data) == 0
audio_load_failed(audio_data) == audio_data.path = "none" \/ audio_data.len = 0

AudioFiles ==
    {f \in UNION {[kind : {"wav"}, rate : WavRates, n_frames : WavFrames,
                   sampwidth : {w[1]}, lo : {w[2]}, hi : {w[3]}] : w \in WavSamples} :
        f.n_frames # 1 \/ f.lo = f.hi}
        \cup [kind : {"raw"}, floats : RawFloats]
        \cup {[kind |-> "unreadable"]}

\* Measurements of the magnitude spectrum: <<spectral_centroid, spectral_rolloff>>.
\* A raw-float waveform can hold NaN: then every magnitude is NaN, the centroid is
\* NaN and no bin passes the rolloff test, so the rolloff is 0.
\* A silent waveform has an all-zero spectrum: centroid 0 / (0 + 1e-6) = 0, and
\* every bin passes the rolloff test, so the rolloff is freqs[0] = 0.
SpectralInputs(audio) ==
    IF Silent(audio) THEN {<<I(0), I(0)>>}
    ELSE ({I(0), I(150), I(1500), I(3450)} \X {I(0), I(4000)})
             \cup (IF audio.path = "raw" THEN {<<Nan, I(0)>>} ELSE {})

\* spectral_analysis without the min(1.0, ...) cap
spectral_analysis_uncapped(len, m, raises) ==
    IF raises \/ len < 2 THEN R(3, 10)
    ELSE LET centroid_deviation == Div(AbsR(Sub(m[1], I(1500))), I(1500))
             rolloff_deviation == Div(AbsR(Sub(m[2], I(4000))), I(4000))
         IN  Add(Mul(centroid_deviation, R(1, 2)), Mul(rolloff_deviation, R(1, 2)))

spectral_analysis(len, m, raises) ==
    \* cumsum[-1] of an empty spectrum raises IndexError
    IF raises \/ len < 2 THEN R(3, 10)
    ELSE LET centroid_deviation == Div(AbsR(Sub(m[1], I(1500))), I(1500))
             rolloff_deviation == Div(AbsR(Sub(m[2], I(4000))), I(4000))
         IN  PyMin(One, Add(Mul(centroid_deviation, R(1, 2)),
                            Mul(rolloff_deviation, R(1, 2))))

\* transition_variance / (mean(energy) + 1e-6)
TemporalInputs(audio) ==
    IF Silent(audio) THEN {I(0)}
    ELSE {I(0), R(11, 20), R(13, 20), I(2)}
             \cup (IF audio.path = "raw" THEN {Nan} ELSE {})

\* temporal_analysis whose except branch returns 0.0
temporal_analysis_except_zero(len, ratio, raises) ==
    LET frame_length == sample_rate \div 100
        n_energy == RangeLen(len - frame_length, frame_length)
    IN  IF raises THEN Zero
        ELSE IF n_energy > 1 THEN PyMin(One, ratio)
        ELSE R(3, 10)

temporal_analysis(len, ratio, raises) ==
    LET frame_length == sample_rate \div 100
        n_energy == RangeLen(len - frame_length, frame_length)
    IN  IF raises THEN R(3, 10)
        ELSE IF n_energy > 1 THEN PyMin(One, ratio)
        ELSE R(3, 10)

\* np.mean(feature_stds)
\* the segments of a silent waveform all have the features (0, 0, 0)
ConsistencyInputs(audio) ==
    IF Silent(audio) THEN {I(0)}
    ELSE {I(0), R(1, 25), R(1, 20), R(1, 10), R(3, 10), I(2)}
             \cup (IF audio.path = "raw" THEN {Nan} ELSE {})

\* voice_consistency_check that also falls back on exactly 2 segments
voice_consistency_check_two_segments_fallback(len, mean_std, raises) ==
    LET segment_length == sample_rate * 2
        num_segments == len \div segment_length
        consistency == Sub(One, mean_std)
    IN  IF raises THEN R(3, 10)
        ELSE IF num_segments <= 2 THEN R(3, 10)
        ELSE IF Gt(consistency, R(95, 100)) THEN PyMin(One, consistency)
        ELSE PyMax(Zero, Mul(Sub(consistency, R(7, 10)), I(2)))

\* voice_consistency_check whose uniformity test is consistency > 0.7
voice_consistency_check_uniform_above_07(len, mean_std, raises) ==
    LET segment_length == sample_rate * 2
        num_segments == len \div segment_length
        consistency == Sub(One, mean_std)
    IN  IF raises THEN R(3, 10)
        ELSE IF num_segments < 2 THEN R(3, 10)
        ELSE IF Gt(consistency, R(7, 10)) THEN PyMin(One, consistency)
        ELSE PyMax(Zero, Mul(Sub(consistency, R(7, 10)), I(2)))

\* voice_consistency_check whose uniformity test is consistency >= 0.95
voice_consistency_check_inclusive(len, mean_std, raises) ==
    LET segment_length == sample_rate * 2
        num_segments == len \div segment_length
        consistency == Sub(One, mean_std)
    IN  IF raises THEN R(3, 10)
        ELSE IF num_segments < 2 THEN R(3, 10)
        ELSE IF ~Lt(consistency, R(95, 100)) /\ ~IsNan(consistency)
             THEN PyMin(One, consistency)
        ELSE PyMax(Zero, Mul(Sub(consistency, R(7, 10)), I(2)))

voice_consistency_check(len, mean_std, raises) ==
    LET segment_length == sample_rate * 2
        num_segments == len \div segment_length
        consistency == Sub(One, mean_std)
    IN  IF raises THEN R(3, 10)
        ELSE IF num_segments < 2 THEN R(3, 10)
        ELSE IF Gt(consistency, R(95, 100)) THEN PyMin(One, consistency)
        ELSE PyMax(Zero, Mul(Sub(consistency, R(7, 10)), I(2)))

\* num_segments, and consistency (line 197) when the call got that far
voice_consistency_locals(len, mean_std, raises) ==
    LET segment_length == sample_rate * 2
        num_segments == len \div segment_length
    IN  IF raises THEN NoLocals
        ELSE IF num_segments < 2 THEN [num_segments |-> num_segments]
        ELSE [num_segments |-> num_segments, consistency |-> Sub(One, mean_std)]

\* <<len(pitch_track), pitch_variance, pitch_range>>
\* no frame of a silent waveform has a positive autocorrelation peak
ProsodyInputs(audio) ==
    LET frame_length == sample_rate \div 50
        n_frames == RangeLen(audio.len - frame_length, frame_length)
    IN  {<<0, I(0), I(0)>>} \cup
        (IF n_frames >= 10 /\ ~Silent(audio)
         THEN {<<10, I(0), I(0)>>, <<10, I(300), I(150)>>,
               <<10, I(900), I(150)>>, <<10, I(900), I(450)>>}
         ELSE {})

prosody_analysis(m, raises) ==
    IF raises THEN R(3, 10)
    ELSE IF m[1] < 10 THEN R(3, 10)
    ELSE LET variance_score == PyMin(One, Div(AbsR(Sub(m[2], I(300))), I(300)))
             range_score == PyMin(One, Div(AbsR(Sub(m[3], I(150))), I(150)))
         IN  Add(Mul(variance_score, R(1, 2)), Mul(range_score, R(1, 2)))

\* classify_audio_type with the spectral rule tested before the consistency rule
classify_audio_type_spectral_first(spectral, consistency) ==
    IF Gt(spectral, R(65, 100)) THEN "synthesized_speech"
    ELSE IF Gt(consistency, R(75, 100)) THEN "voice_cloning"
    ELSE IF Gt(spectral, R(45, 100)) \/ Gt(consistency, R(45, 100)) THEN "edited"
    ELSE "authentic"

classify_audio_type(spectral, consistency) ==
    IF Gt(consistency, R(75, 100)) THEN "voice_cloning"
    ELSE IF Gt(spectral, R(65, 100)) THEN "synthesized_speech"
    ELSE IF Gt(spectral, R(45, 100)) \/ Gt(consistency, R(45, 100)) THEN "edited"
    ELSE "authentic"

AudioAuthenticMessage ==
    "Audio appears authentic with natural voice characteristics and normal speech patterns."

\* generate_audio_explanation without the generic sentence for an empty list
generate_audio_explanation_no_fallback(is_fake, spectral, temporal, consistency) ==
    IF ~is_fake THEN AudioAuthenticMessage
    ELSE LET e1 == Append1(<<>>, Gt(consistency, R(65, 100)),
                     "Unusually consistent voice patterns (" \o Pct(consistency)
                     \o ") suggest possible voice cloning or TTS")
             e2 == Append1(e1, Gt(spectral, R(55, 100)),
                     "Spectral anomalies (" \o Pct(spectral)
                     \o ") indicate potential synthetic speech generation")
             e3 == Append1(e2, Gt(temporal, R(55, 100)),
                     "Unnatural temporal transitions (" \o Pct(temporal)
                     \o ") detected in audio signal")
         IN  Join(e3)

generate_audio_explanation(is_fake, spectral, temporal, consistency) ==
    IF ~is_fake THEN AudioAuthenticMessage
    ELSE LET e1 == Append1(<<>>, Gt(consistency, R(65, 100)),
                     "Unusually consistent voice patterns (" \o Pct(consistency)
                     \o ") suggest possible voice cloning or TTS")
             e2 == Append1(e1, Gt(spectral, R(55, 100)),
                     "Spectral anomalies (" \o Pct(spectral)
                     \o ") indicate potential synthetic speech generation")
             e3 == Append1(e2, Gt(temporal, R(55, 100)),
                     "Unnatural temporal transitions (" \o Pct(temporal)
                     \o ") detected in audio signal")
         IN  IF Len(e3) > 0 THEN Join(e3)
             ELSE "Voice manipulation or synthesis detected in audio analysis"

audio_overall(s) ==
    Add(Add(Mul(s.spectral, R(3, 10)), Mul(s.temporal, R(3, 10))),
        Add(Mul(s.voice_consistency, R(2, 10)), Mul(s.prosody, R(2, 10))))

\* overall_score >= 0.55
audio_is_fake_inclusive(overall) == Le(R(55, 100), overall)

audio_is_fake(overall) == Gt(overall, R(55, 100))

\* confidence = overall_score, as in audio_detector_full.py
audio_confidence_uncapped(overall) == overall

audio_confidence(overall) == PyMin(R(98, 100), overall)

\* audio_result whose label is "authentic" whenever the verdict is negative
audio_result_label_follows_verdict(s, overall, len) ==
    [is_deepfake |-> audio_is_fake(overall),
     is_voice_cloned |-> Gt(s.voice_consistency, R(7, 10)),
     confidence |-> audio_confidence(overall),
     manipulation_type |-> IF audio_is_fake(overall)
                           THEN classify_audio_type(s.spectral, s.voice_consistency)
                           ELSE "authentic",
     details |-> [spectral_anomaly_score |-> s.spectral,
                  temporal_anomaly_score |-> s.temporal,
                  voice_consistency_score |-> s.voice_consistency,
                  prosody_score |-> s.prosody,
                  duration |-> Fixed2(R(len, sample_rate)) \o "s",
                  sample_rate |-> sample_rate],
     explanation |-> generate_audio_explanation(audio_is_fake(overall),
                        s.spectral, s.temporal, s.voice_consistency)]

audio_result(s, overall, len) ==
    [is_deepfake |-> audio_is_fake(overall),
     is_voice_cloned |-> Gt(s.voice_consistency, R(7, 10)),
     confidence |-> audio_confidence(overall),
     manipulation_type |-> classify_audio_type(s.spectral, s.voice_consistency),
     details |-> [spectral_anomaly_score |-> s.spectral,
                  temporal_anomaly_score |-> s.temporal,
                  voice_consistency_score |-> s.voice_consistency,
                  prosody_score |-> s.prosody,
                  duration |-> Fixed2(R(len, sample_rate)) \o "s",
                  sample_rate |-> sample_rate],
     explanation |-> generate_audio_explanation(audio_is_fake(overall),
                        s.spectral, s.temporal, s.voice_consistency)]

\* analyze, lines 19-24 and 61-66: load, or end with the error record
AudioLoad ==
    /\ pc = "idle"
    /\ \E file \in AudioFiles :
         /\ LET audio_data == load_audio(file)
            IN  IF audio_load_failed(audio_data)
                THEN /\ pc' = "done"
                     /\ media' = audio_data
                     /\ result' = ErrorResult("Could not load audio file")
                ELSE /\ pc' = "a_spectral"
                     /\ media' = audio_data
                     /\ result' = NoResult
         /\ detector' = [detector EXCEPT !.audio = self_after_load_audio(@, file)]
    /\ UNCHANGED <<sub, failed, vid, overall_score>>
    /\ locals' = NoLocals
    /\ UNCHANGED <<users, requests>>

AudioSpectral ==
    /\ pc = "a_spectral"
    /\ \E m \in SpectralInputs(media), raises \in BOOLEAN :
         /\ sub' = Put(sub, "spectral", spectral_analysis(media.len, m, raises))
         /\ failed' = IF raises \/ media.len < 2 THEN failed \cup {"spectral"} ELSE failed
    /\ pc' = "a_temporal"
    /\ UNCHANGED <<media, vid, overall_score, result, detector>>
    /\ locals' = NoLocals
    /\ UNCHANGED <<users, requests>>

AudioTemporal ==
    /\ pc = "a_temporal"
    /\ \E ratio \in TemporalInputs(media), raises \in BOOLEAN :
         /\ sub' = Put(sub, "temporal", temporal_analysis(media.len, ratio, raises))
         /\ failed' = IF raises THEN failed \cup {"temporal"} ELSE failed
    /\ pc' = "a_voice"
    /\ UNCHANGED <<media, vid, overall_score, result, detector>>
    /\ locals' = NoLocals
    /\ UNCHANGED <<users, requests>>

\* AudioVoice after which analyze goes straight to the fusion
AudioVoice_skips_prosody ==
    /\ pc = "a_voice"
    /\ \E mean_std \in ConsistencyInputs(media), raises \in BOOLEAN :
         /\ sub' = Put(sub, "voice_consistency",
                        voice_consistency_check(media.len, mean_std, raises))
         /\ failed' = IF raises THEN failed \cup {"voice_consistency"} ELSE failed
         /\ locals' = voice_consistency_locals(media.len, mean_std, raises)
         /\ UNCHANGED <<users, requests>>
    /\ pc' = "a_fuse"
    /\ UNCHANGED <<media, vid, overall_score, result, detector>>

AudioVoice ==
    /\ pc = "a_voice"
    /\ \E mean_std \in ConsistencyInputs(media), raises \in BOOLEAN :
         /\ sub' = Put(sub, "voice_consistency",
                        voice_consistency_check(media.len, mean_std, raises))
         /\ failed' = IF raises THEN failed \cup {"voice_consistency"} ELSE failed
         /\ locals' = voice_consistency_locals(media.len, mean_std, raises)
         /\ UNCHANGED <<users, requests>>
    /\ pc' = "a_prosody"
    /\ UNCHANGED <<media, vid, overall_score, result, detector>>

AudioProsody ==
    /\ pc = "a_prosody"
    /\ \E m \in ProsodyInputs(media), raises \in BOOLEAN :
         /\ sub' = Put(sub, "prosody", prosody_analysis(m, raises))
         /\ failed' = IF raises THEN failed \cup {"prosody"} ELSE failed
    /\ pc' = "a_fuse"
    /\ UNCHANGED <<media, vid, overall_score, result, detector>>
    /\ locals' = NoLocals
    /\ UNCHANGED <<users, requests>>

\* analyze, lines 32-59
AudioFuse ==
    /\ pc = "a_fuse"
    /\ overall_score' = audio_overall(sub)
    /\ result' = audio_result(sub, audio_overall(sub), media.len)
    /\ pc' = "done"
    /\ UNCHANGED <<media, sub, failed, vid, detector>>
    /\ locals' = NoLocals
    /\ UNCHANGED <<users, requests>>

-----------------------------------------------------------------------------
(* image_detector.py *)

\* <<width, height>> of a decoded image
ImageSizes == {<<1, 1>>, <<64, 64>>, <<640, 480>>}

\* A decoded RGB image: its size and np.var(image, axis=(0, 1)).mean(), which both
\* the pixel-level and the AI-generation analysis compute from it.
ImageFiles ==
    {[kind |-> "unreadable"]} \cup
    {[kind |-> "image", decoded |-> TRUE, w |-> sz[1], h |-> sz[2],
      color_variance |-> cv] :
        sz \in ImageSizes, cv \in {I(0), I(500), I(2000)}}

\* a single pixel has no variance
ImageOk(f) ==
    /\ f.kind = "image"
    /\ (f.w * f.h = 1 => f.color_variance = I(0))

\* <<laplacian.var(), edge_density>>
PixelInputs(img) ==
    IF img.w * img.h = 1 THEN {<<I(0), I(0)>>}
    ELSE {<<I(0), I(0)>>, <<I(375), I(0)>>, <<I(1000), I(0)>>, <<I(1000), R(1, 2)>>}

pixel_level_analysis(img, m, raises) ==
    IF raises THEN R(3, 10)
    ELSE LET smoothness == Sub(One, PyMin(One, Div(m[1], I(1000))))
             color_score == PyMin(One, Div(AbsR(Sub(img.color_variance, I(500))), I(500)))
             manipulation_score ==
                 Add(Add(Mul(smoothness, R(4, 10)), Mul(color_score, R(3, 10))),
                     Mul(Sub(One, m[2]), R(3, 10)))
         IN  PyMin(One, manipulation_score)

\* abs(np.log(freq_ratio + 1e-6)).  The high-frequency mask is empty when even the
\* corner pixel lies within the radius; np.mean of the empty selection is NaN.
FrequencyInputs(img) ==
    LET radius == (IF img.h < img.w THEN img.h ELSE img.w) \div 4
        corner == (img.w \div 2) * (img.w \div 2) + (img.h \div 2) * (img.h \div 2)
    IN  IF corner > radius * radius THEN {I(0), R(11, 10), I(3)} ELSE {Nan}

frequency_domain_analysis(log_ratio, raises) ==
    IF raises THEN R(3, 10)
    ELSE PyMin(One, Div(log_ratio, I(2)))

\* What the EXIF block of the file holds: len(exif_data), and whether its Make or
\* Software tag names a generative tool.
MetadataInputs ==
    {[exif_tags |-> 0, ai_software |-> FALSE],
     [exif_tags |-> 5, ai_software |-> FALSE],
     [exif_tags |-> 5, ai_software |-> TRUE]}

metadata_analysis(exif, raises) ==
    IF raises THEN [suspicious |-> FALSE, indicators |-> <<>>]
    ELSE LET i1 == Append1(<<>>, exif.exif_tags < 3, "minimal_metadata")
             i2 == Append1(i1, exif.ai_software, "ai_software_detected")
         IN  [suspicious |-> Len(i2) > 0, indicators |-> i2]

\* avg_discontinuity over the 8x8 block boundaries
detect_jpeg_artifacts(img, avg_discontinuity, raises) ==
    IF raises THEN R(3, 10)
    ELSE IF img.h < 16 \/ img.w < 16 THEN R(3, 10)
    ELSE PyMin(One, Div(avg_discontinuity, I(5)))

\* <<noise_variance, block_similarities, avg_discontinuity>>; block_similarities is
\* <<>> (no block has a neighbour below it, or every correlation is NaN) or
\* <<its mean>>.  An image of one solid colour (color_variance 0) has no noise, no
\* discontinuity, and the correlation of two of its blocks is NaN.
AIInputs(img) ==
    LET has_neighbor == img.h > 64 /\ img.w > 32
        solid == img.color_variance = I(0)
    IN  {<<I(0), <<>>, I(0)>>} \cup
        (IF img.w * img.h > 1 /\ ~solid THEN {<<I(50), <<>>, I(5)>>} ELSE {}) \cup
        (IF has_neighbor /\ ~solid
         THEN {<<I(0), <<One>>, I(0)>>, <<I(50), <<R(1, 4)>>, I(5)>>,
               <<I(50), <<One>>, I(5)>>}
         ELSE {})

\* detect_ai_generated in which an empty block_similarities counts as a
\* similarity of 1.0
detect_ai_generated_default_similar(img, m, jpeg_raises, raises) ==
    IF raises THEN R(3, 10)
    ELSE LET noise_score == PyMin(One, Div(m[1], I(50)))
             avg_similarity == IF Len(m[2]) > 0 THEN m[2][1] ELSE One
             color_score == PyMin(One, Div(img.color_variance, I(1000)))
             jpeg_artifacts == detect_jpeg_artifacts(img, m[3], jpeg_raises)
             ai_score ==
                 Add(Add(Mul(noise_score, R(25, 100)), Mul(avg_similarity, R(30, 100))),
                     Add(Mul(color_score, R(25, 100)), Mul(jpeg_artifacts, R(20, 100))))
         IN  PyMin(One, ai_score)

\* len(block_similarities), avg_similarity (line 201) and jpeg_artifacts (line 208)
detect_ai_generated_locals(img, m, jpeg_raises, raises) ==
    IF raises THEN NoLocals
    ELSE [n_block_similarities |-> Len(m[2]),
          avg_similarity |-> IF Len(m[2]) > 0 THEN m[2][1] ELSE R(3, 10),
          jpeg_artifacts |-> detect_jpeg_artifacts(img, m[3], jpeg_raises)]

detect_ai_generated(img, m, jpeg_raises, raises) ==
    IF raises THEN R(3, 10)
    ELSE LET noise_score == PyMin(One, Div(m[1], I(50)))
             avg_similarity == IF Len(m[2]) > 0 THEN m[2][1] ELSE R(3, 10)
             color_score == PyMin(One, Div(img.color_variance, I(1000)))
             jpeg_artifacts == detect_jpeg_artifacts(img, m[3], jpeg_raises)
             ai_score ==
                 Add(Add(Mul(noise_score, R(25, 100)), Mul(avg_similarity, R(30, 100))),
                     Add(Mul(color_score, R(25, 100)), Mul(jpeg_artifacts, R(20, 100))))
         IN  PyMin(One, ai_score)

\* np.mean of a non-empty sequence of rationals
RECURSIVE SumSeq(_)
SumSeq(s) == IF Len(s) = 0 THEN Zero ELSE Add(s[1], SumSeq(Tail(s)))

Mean(s) == Div(SumSeq(s), I(Len(s)))

\* The faces detectMultiScale reports: the edge_variance of each (the mean variance
\* of its four 5-pixel border strips).  The cascade's window is 24x24, so every
\* reported face has w > 20 and h > 20.
RECURSIVE SeqsUpTo(_, _)
SeqsUpTo(S, n) ==
    IF n = 0 THEN {<<>>}
    ELSE LET shorter == SeqsUpTo(S, n - 1)
         IN  shorter \cup {Append(q, x) : q \in {t \in shorter : Len(t) = n - 1}, x \in S}

ImageFaceInputs(img) ==
    IF img.w < 24 \/ img.h < 24 THEN {<<>>}
    ELSE SeqsUpTo({I(0), I(200), I(1000)}, MaxFaces)

face_score(edge_variance) == PyMax(Zero, Sub(One, Div(edge_variance, I(500))))

RECURSIVE MapFaceScore(_)
MapFaceScore(s) ==
    IF Len(s) = 0 THEN <<>> ELSE <<face_score(s[1])>> \o MapFaceScore(Tail(s))

\* face_manipulation_check returning the extractor fallback 0.3 for no face
face_manipulation_check_no_face_fallback(faces, raises) ==
    IF raises THEN R(3, 10)
    ELSE IF Len(faces) = 0 THEN R(3, 10)
    ELSE Mean(MapFaceScore(faces))

\* the edge_variance of each region detectMultiScale reported (line 254)
face_manipulation_check_locals(faces, raises) ==
    IF raises THEN NoLocals ELSE [faces |-> faces]

face_manipulation_check(faces, raises) ==
    IF raises THEN R(3, 10)
    ELSE IF Len(faces) = 0 THEN R(2, 10)
    ELSE Mean(MapFaceScore(faces))

\* classify_image_type with the video classifier's default label
classify_image_type_default_none(pixel_score, ai_score, face_score_) ==
    IF Gt(ai_score, R(7, 10)) THEN "ai_generated"
    ELSE IF Gt(face_score_, R(65, 100)) THEN "face_manipulation"
    ELSE IF Gt(pixel_score, R(65, 100)) THEN "edited"
    ELSE "none"

classify_image_type(pixel_score, ai_score, face_score_) ==
    IF Gt(ai_score, R(7, 10)) THEN "ai_generated"
    ELSE IF Gt(face_score_, R(65, 100)) THEN "face_manipulation"
    ELSE IF Gt(pixel_score, R(65, 100)) THEN "edited"
    ELSE "authentic"

ImageAuthenticMessage ==
    "Image appears authentic with no significant manipulation or AI generation detected."

\* generate_image_explanation testing the face score before the AI score
generate_image_explanation_face_first(is_fake, pixel, freq, ai, face) ==
    IF ~is_fake THEN ImageAuthenticMessage
    ELSE LET e1 == Append1(<<>>, Gt(face, R(60, 100)),
                     "Face manipulation artifacts (" \o Pct(face)
                     \o ") detected at facial boundaries")
             e2 == Append1(e1, Gt(ai, R(65, 100)),
                     "High AI-generation indicators (" \o Pct(ai)
                     \o ") - likely created by generative model")
             e3 == Append1(e2, Gt(pixel, R(55, 100)),
                     "Pixel-level anomalies (" \o Pct(pixel)
                     \o ") indicate editing or manipulation")
             e4 == Append1(e3, Gt(freq, R(55, 100)),
                     "Frequency domain signatures (" \o Pct(freq)
                     \o ") consistent with synthetic content")
         IN  IF Len(e4) > 0 THEN Join(e4)
             ELSE "Manipulation or AI generation detected"

generate_image_explanation(is_fake, pixel, freq, ai, face) ==
    IF ~is_fake THEN ImageAuthenticMessage
    ELSE LET e1 == Append1(<<>>, Gt(ai, R(65, 100)),
                     "High AI-generation indicators (" \o Pct(ai)
                     \o ") - likely created by generative model")
             e2 == Append1(e1, Gt(face, R(60, 100)),
                     "Face manipulation artifacts (" \o Pct(face)
                     \o ") detected at facial boundaries")
             e3 == Append1(e2, Gt(pixel, R(55, 100)),
                     "Pixel-level anomalies (" \o Pct(pixel)
                     \o ") indicate editing or manipulation")
             e4 == Append1(e3, Gt(freq, R(55, 100)),
                     "Frequency domain signatures (" \o Pct(freq)
                     \o ") consistent with synthetic content")
         IN  IF Len(e4) > 0 THEN Join(e4)
             ELSE "Manipulation or AI generation detected"

\* image_overall with a penalty for suspicious metadata
image_overall_with_metadata(s) ==
    PyMin(One,
          Add(Add(Add(Mul(s.pixel, R(25, 100)), Mul(s.frequency, R(25, 100))),
                  Add(Mul(s.ai_generated, R(30, 100)), Mul(s.face, R(20, 100)))),
              IF s.metadata.suspicious THEN R(1, 10) ELSE Zero))

image_overall(s) ==
    Add(Add(Mul(s.pixel, R(25, 100)), Mul(s.frequency, R(25, 100))),
        Add(Mul(s.ai_generated, R(30, 100)), Mul(s.face, R(20, 100))))

\* image_is_fake with the 0.55 threshold of the audio and video detectors
image_is_fake_audio_threshold(overall) == Gt(overall, R(55, 100))

image_is_fake(overall) == Gt(overall, R(60, 100))

image_confidence(overall) == PyMin(R(98, 100), overall)

image_result(s, overall, img) ==
    [is_deepfake |-> image_is_fake(overall),
     is_ai_generated |-> Gt(s.ai_generated, R(65, 100)),
     confidence |-> image_confidence(overall),
     manipulation_type |-> classify_image_type(s.pixel, s.ai_generated, s.face),
     details |-> [pixel_analysis_score |-> s.pixel,
                  frequency_analysis_score |-> s.frequency,
                  ai_generated_score |-> s.ai_generated,
                  face_manipulation_score |-> s.face,
                  metadata_suspicious |-> s.metadata.suspicious,
                  image_dimensions |-> ToString(img.w) \o "x" \o ToString(img.h),
                  \* convert('RGB') returns an image whose format is None
                  file_format |-> "unknown"],
     explanation |-> generate_image_explanation(image_is_fake(overall),
                        s.pixel, s.frequency, s.ai_generated, s.face)]

\* analyze, lines 25-28 and 67-72: open and convert, or end with the error record
ImageLoad ==
    /\ pc = "idle"
    /\ \E file \in ImageFiles :
         IF file.kind = "unreadable"
         THEN /\ pc' = "done"
              /\ media' = [kind |-> "image", decoded |-> FALSE]
              /\ result' = ErrorResult("cannot identify image file")
         ELSE /\ ImageOk(file)
              /\ pc' = "i_pixel"
              /\ media' = file
              /\ result' = NoResult
    /\ UNCHANGED <<sub, failed, vid, overall_score, detector>>
    /\ locals' = NoLocals
    /\ UNCHANGED <<users, requests>>

ImagePixel ==
    /\ pc = "i_pixel"
    /\ \E m \in PixelInputs(media), raises \in BOOLEAN :
         /\ sub' = Put(sub, "pixel", pixel_level_analysis(media, m, raises))
         /\ failed' = IF raises THEN failed \cup {"pixel"} ELSE failed
    /\ pc' = "i_frequency"
    /\ UNCHANGED <<media, vid, overall_score, result, detector>>
    /\ locals' = NoLocals
    /\ UNCHANGED <<users, requests>>

ImageFrequency ==
    /\ pc = "i_frequency"
    /\ \E m \in FrequencyInputs(media), raises \in BOOLEAN :
         /\ sub' = Put(sub, "frequency", frequency_domain_analysis(m, raises))
         /\ failed' = IF raises THEN failed \cup {"frequency"} ELSE failed
    /\ pc' = "i_metadata"
    /\ UNCHANGED <<media, vid, overall_score, result, detector>>
    /\ locals' = NoLocals
    /\ UNCHANGED <<users, requests>>

ImageMetadata ==
    /\ pc = "i_metadata"
    /\ \E exif \in MetadataInputs, raises \in BOOLEAN :
         /\ sub' = Put(sub, "metadata", metadata_analysis(exif, raises))
         /\ failed' = IF raises THEN failed \cup {"metadata"} ELSE failed
    /\ pc' = "i_ai"
    /\ UNCHANGED <<media, vid, overall_score, result, detector>>
    /\ locals' = NoLocals
    /\ UNCHANGED <<users, requests>>

ImageAI ==
    /\ pc = "i_ai"
    /\ \E m \in AIInputs(media), jpeg_raises \in BOOLEAN, raises \in BOOLEAN :
         /\ sub' = Put(sub, "ai_generated",
                       detect_ai_generated(media, m, jpeg_raises, raises))
         /\ failed' = IF raises THEN failed \cup {"ai_generated"} ELSE failed
         /\ locals' = detect_ai_generated_locals(media, m, jpeg_raises, raises)
         /\ UNCHANGED <<users, requests>>
    /\ pc' = "i_face"
    /\ UNCHANGED <<media, vid, overall_score, result, detector>>

ImageFace ==
    /\ pc = "i_face"
    /\ \E faces \in ImageFaceInputs(media), raises \in BOOLEAN :
         /\ sub' = Put(sub, "face", face_manipulation_check(faces, raises))
         /\ failed' = IF raises THEN failed \cup {"face"} ELSE failed
         /\ locals' = face_manipulation_check_locals(faces, raises)
         /\ UNCHANGED <<users, requests>>
    /\ pc' = "i_fuse"
    /\ UNCHANGED <<media, vid, overall_score, result, detector>>

\* analyze, lines 37-65
ImageFuse ==
    /\ pc = "i_fuse"
    /\ overall_score' = image_overall(sub)
    /\ result' = image_result(sub, image_overall(sub), media)
    /\ pc' = "done"
    /\ UNCHANGED <<media, sub, failed, vid, detector>>
    /\ locals' = NoLocals
    /\ UNCHANGED <<users, requests>>

-----------------------------------------------------------------------------
(* deepfake_detector.py *)

\* What cv2.VideoCapture reports for a file: whether it opened, CAP_PROP_FRAME_COUNT,
\* CAP_PROP_FPS, and how many frames cap.read() delivers before it returns
\* ret = False (the reported count is container metadata and can exceed it).
\* scene "any": every sampled frame may show any faces and differ in any way
\* from the one before.  The other scenes show no face at all, and all their
\* reported frames can be read: "static" repeats one picture, "cuts" changes the
\* whole picture at every sampled frame.
VideoFiles ==
    {[opened |-> FALSE, frame_count |-> 0, fps |-> 0, readable |-> 0, scene |-> "any"]}
    \cup
    UNION {{[opened |-> TRUE, frame_count |-> n, fps |-> f, readable |-> r,
             scene |-> "any"] :
               n \in {0, r, 60}, f \in {0, 25}} : r \in 0..MaxFrames}
    \cup
    {[opened |-> TRUE, frame_count |-> n, fps |-> 25, readable |-> n, scene |-> sc] :
        n \in 1..MaxPlainFrames, sc \in {"static", "cuts"}}

\* len(faces) of a sampled frame
FaceCounts(scene) == IF scene = "any" THEN 0..MaxFaces ELSE {0}

\* A detected face region (at least 30x30 by minSize): the Laplacian variance of its
\* grayscale (read by _analyze_face and by _detect_artifacts), its Canny edge
\* density, the variance of its hue channel, the mean block-boundary difference,
\* abs(np.log(ratio + 1e-6)) of its spectrum, and whether OpenCV raises on it.
FaceInputs ==
    {[size |-> 2700, variance |-> I(0), edge_density |-> I(0), color_variance |-> I(0),
      block_difference |-> I(0), log_ratio |-> R(3, 5), raises |-> FALSE],
     [size |-> 2700, variance |-> I(250), edge_density |-> R(1, 5), color_variance |-> I(0),
      block_difference |-> I(10), log_ratio |-> I(2), raises |-> FALSE],
     [size |-> 2700, variance |-> I(500), edge_density |-> I(0), color_variance |-> I(20),
      block_difference |-> I(0), log_ratio |-> I(2), raises |-> FALSE]}

analyze_face(face) ==
    IF face.raises THEN R(3, 10)
    ELSE IF face.size = 0 THEN R(3, 10)
    ELSE LET smoothness_score == Sub(One, PyMin(One, Div(face.variance, I(500))))
             edge_score == IF Lt(face.edge_density, R(15, 100))
                           THEN Sub(One, face.edge_density) ELSE face.edge_density
             color_score == PyMin(One, Div(AbsR(Sub(face.color_variance, I(20))), I(20)))
             anomaly_score ==
                 Add(Add(Mul(smoothness_score, R(4, 10)), Mul(edge_score, R(3, 10))),
                     Mul(color_score, R(3, 10)))
         IN  PyMin(One, anomaly_score)

check_blocking_artifacts(face) == PyMin(One, Div(face.block_difference, I(10)))

detect_artifacts(face) ==
    IF face.raises THEN R(3, 10)
    ELSE IF face.size = 0 THEN R(3, 10)
    ELSE PyMin(One, Add(Mul(Div(face.variance, I(1000)), R(6, 10)),
                        Mul(check_blocking_artifacts(face), R(4, 10))))

detect_compression_artifacts(face) ==
    IF face.raises THEN R(3, 10)
    ELSE IF face.size = 0 THEN R(3, 10)
    ELSE PyMin(One, face.log_ratio)

\* np.mean(cv2.absdiff(prev_frame, curr_frame))
TemporalDiffInputs == {I(0), I(40)}

\* np.mean(diff) of a sampled frame against the one before, and whether the
\* comparison raises
TemporalDiffs(scene) ==
    IF scene = "any" THEN TemporalDiffInputs \X BOOLEAN
    ELSE IF scene = "static" THEN {<<I(0), FALSE>>}
    ELSE {<<I(40), FALSE>>}

compute_temporal_consistency(mean_diff, raises) ==
    IF raises THEN Zero ELSE PyMin(One, Div(mean_diff, I(50)))

\* classify_manipulation with the lip_sync rule tested first
classify_manipulation_lip_sync_first(anomaly, temporal, compression) ==
    IF Gt(temporal, R(5, 10)) THEN "lip_sync"
    ELSE IF Gt(anomaly, R(7, 10)) /\ Gt(temporal, R(4, 10)) THEN "face_swap"
    ELSE IF Gt(anomaly, R(6, 10)) THEN "face_reenactment"
    ELSE IF Gt(compression, R(6, 10)) THEN "ai_generated"
    ELSE "none"

classify_manipulation(anomaly, temporal, compression) ==
    IF Gt(anomaly, R(7, 10)) /\ Gt(temporal, R(4, 10)) THEN "face_swap"
    ELSE IF Gt(temporal, R(5, 10)) THEN "lip_sync"
    ELSE IF Gt(anomaly, R(6, 10)) THEN "face_reenactment"
    ELSE IF Gt(compression, R(6, 10)) THEN "ai_generated"
    ELSE "none"

VideoAuthenticMessage ==
    "No significant signs of deepfake manipulation detected. The video appears authentic based on facial consistency, temporal analysis, and compression patterns."

generate_explanation(is_deepfake, anomaly, temporal, compression) ==
    IF ~is_deepfake THEN VideoAuthenticMessage
    ELSE LET e1 == Append1(<<>>, Gt(anomaly, R(55, 100)),
                     "Facial anomaly score (" \o Pct(anomaly)
                     \o ") indicates potential manipulation or unusual visual patterns")
             e2 == Append1(e1, Gt(temporal, R(3, 10)),
                     "Temporal inconsistencies (" \o Pct(temporal)
                     \o ") detected across video frames suggesting frame-by-frame editing")
             e3 == Append1(e2, Gt(compression, R(5, 10)),
                     "Compression artifacts (" \o Pct(compression)
                     \o ") consistent with AI-generated or heavily edited content")
         IN  IF Len(e3) > 0 THEN Join(e3)
             ELSE "Manipulation indicators detected in video analysis"

\* a Python list of floats of which only the mean and the emptiness are read
EmptyScores == [sum |-> Zero, len |-> 0]

AppendScore(l, x) == [sum |-> Add(l.sum, x), len |-> l.len + 1]

\* np.mean(scores) if scores else 0.5
MeanOrDefault_half(l) == IF l.len > 0 THEN Div(l.sum, I(l.len)) ELSE R(1, 2)

\* np.mean(scores) if scores else 0.3
MeanOrDefault(l) == IF l.len > 0 THEN Div(l.sum, I(l.len)) ELSE R(3, 10)

video_temporal_inconsistency(v) ==
    R(Len(v.face_inconsistencies), IF v.frames_analyzed > 1 THEN v.frames_analyzed ELSE 1)

video_scores(v) ==
    [anomaly |-> MeanOrDefault(v.anomaly_scores),
     temporal |-> video_temporal_inconsistency(v),
     compression |-> MeanOrDefault(v.compression_artifacts)]

video_overall(s) ==
    Add(Add(Mul(s.anomaly, R(4, 10)), Mul(s.temporal, R(35, 100))),
        Mul(s.compression, R(25, 100)))

video_is_deepfake(overall) == Gt(overall, R(55, 100))

video_confidence(overall) == PyMin(R(98, 100), overall)

video_result(s, overall, v) ==
    [is_deepfake |-> video_is_deepfake(overall),
     confidence |-> video_confidence(overall),
     manipulation_type |-> classify_manipulation(s.anomaly, s.temporal, s.compression),
     details |-> [frames_analyzed |-> v.frames_analyzed,
                  anomaly_score |-> s.anomaly,
                  temporal_inconsistency |-> s.temporal,
                  compression_artifacts |-> s.compression,
                  face_inconsistencies |-> Len(v.face_inconsistencies),
                  video_duration |-> Fixed2(R(v.frame_count, v.fps)) \o "s",
                  fps |-> v.fps],
     explanation |-> generate_explanation(video_is_deepfake(overall),
                        s.anomaly, s.temporal, s.compression)]

\* cap = cv2.VideoCapture(video_path)
Capture(file) ==
    [kind |-> "video", opened |-> file.opened, frame_count |-> file.frame_count,
     fps |-> file.fps, readable |-> file.readable, scene |-> file.scene,
     released |-> FALSE]

\* the sampling stride without the max(1, ...) guard
video_sample_rate_unguarded(frame_count) == frame_count \div 30

\* sample_rate = max(1, frame_count // 60)
video_sample_rate_sixty(frame_count) ==
    IF frame_count \div 60 > 1 THEN frame_count \div 60 ELSE 1

\* sample_rate = max(1, frame_count // 30)
video_sample_rate(frame_count) ==
    IF frame_count \div 30 > 1 THEN frame_count \div 30 ELSE 1

\* prev_frame_gray that keeps the first sampled frame
next_prev_frame_gray_first_only(prev, frame_idx) ==
    IF prev = -1 THEN frame_idx ELSE prev

\* prev_frame_gray = gray.copy(): the frame, named by its index; -1 is None
next_prev_frame_gray(prev, frame_idx) == frame_idx

\* VideoOpen without the test fps == 0 of line 32
VideoOpen_frame_count_only ==
    /\ pc = "idle"
    /\ \E file \in VideoFiles :
         IF ~file.opened
         THEN /\ pc' = "done"
              /\ media' = Capture(file)
              /\ vid' = vid
              /\ result' = ErrorResult("Could not open video file")
         ELSE IF file.frame_count = 0
         THEN /\ pc' = "done"
              /\ media' = Capture(file)
              /\ vid' = vid
              /\ result' = ErrorResult("Invalid video file")
         ELSE /\ pc' = "v_read"
              /\ media' = Capture(file)
              /\ vid' = [frame_count |-> file.frame_count,
                         fps |-> file.fps,
                         sample_rate |-> video_sample_rate(file.frame_count),
                         frames_analyzed |-> 0,
                         anomaly_scores |-> EmptyScores,
                         face_inconsistencies |-> <<>>,
                         compression_artifacts |-> EmptyScores,
                         frame_idx |-> 0,
                         prev_frame_gray |-> -1,
                         sampled |-> <<>>,
                         compared |-> <<>>,
                         faces |-> 0]
              /\ result' = NoResult
    /\ UNCHANGED <<sub, failed, overall_score, detector>>
    /\ locals' = NoLocals
    /\ UNCHANGED <<users, requests>>

\* analyze_video, lines 24-43 and 122-127
VideoOpen ==
    /\ pc = "idle"
    /\ \E file \in VideoFiles :
         IF ~file.opened
         THEN /\ pc' = "done"
              /\ media' = Capture(file)
              /\ vid' = vid
              /\ result' = ErrorResult("Could not open video file")
         ELSE IF file.frame_count = 0 \/ file.fps = 0
         THEN /\ pc' = "done"
              /\ media' = Capture(file)
              /\ vid' = vid
              /\ result' = ErrorResult("Invalid video file")
         ELSE /\ pc' = "v_read"
              /\ media' = Capture(file)
              /\ vid' = [frame_count |-> file.frame_count,
                         fps |-> file.fps,
                         sample_rate |-> video_sample_rate(file.frame_count),
                         frames_analyzed |-> 0,
                         anomaly_scores |-> EmptyScores,
                         face_inconsistencies |-> <<>>,
                         compression_artifacts |-> EmptyScores,
                         frame_idx |-> 0,
                         prev_frame_gray |-> -1,
                         sampled |-> <<>>,
                         compared |-> <<>>,
                         faces |-> 0]
              /\ result' = NoResult
    /\ UNCHANGED <<sub, failed, overall_score, detector>>
    /\ locals' = NoLocals
    /\ UNCHANGED <<users, requests>>

\* lines 45-57 and 86: cap.read(), the sampling test and detectMultiScale
VideoRead ==
    /\ pc = "v_read"
    /\ IF vid.frame_idx >= media.readable
       THEN /\ pc' = "v_fuse"
            /\ vid' = vid
            /\ result' = result
       ELSE IF vid.sample_rate = 0
       THEN \* frame_idx % sample_rate raises ZeroDivisionError
            /\ pc' = "done"
            /\ vid' = vid
            /\ result' = ErrorResult("integer division or modulo by zero")
       ELSE IF vid.frame_idx % vid.sample_rate = 0
       THEN \E n \in FaceCounts(media.scene) :
              /\ vid' = [vid EXCEPT !.faces = n, !.sampled = Append(@, vid.frame_idx)]
              /\ pc' = IF n > 0 THEN "v_face" ELSE "v_temporal"
              /\ result' = result
       ELSE /\ vid' = [vid EXCEPT !.frame_idx = @ + 1]
            /\ pc' = "v_read"
            /\ result' = result
    /\ UNCHANGED <<media, sub, failed, overall_score, detector>>
    /\ locals' = NoLocals
    /\ UNCHANGED <<users, requests>>

\* lines 60-75: one iteration of the loop over the detected faces
VideoFace ==
    /\ pc = "v_face"
    /\ \E face \in FaceInputs :
         vid' = [vid EXCEPT
                   !.anomaly_scores = AppendScore(@, analyze_face(face)),
                   !.face_inconsistencies =
                       Append1(@, Gt(detect_artifacts(face), R(5, 10)), vid.frame_idx),
                   !.compression_artifacts =
                       AppendScore(@, detect_compression_artifacts(face)),
                   !.faces = @ - 1]
    /\ pc' = IF vid.faces > 1 THEN "v_face" ELSE "v_temporal"
    /\ UNCHANGED <<media, sub, failed, overall_score, result, detector>>
    /\ locals' = NoLocals
    /\ UNCHANGED <<users, requests>>

\* lines 77-86: the temporal check against the previous sampled frame
VideoTemporal ==
    /\ pc = "v_temporal"
    /\ \E d \in TemporalDiffs(media.scene) :
         LET compares == vid.prev_frame_gray # -1
             flagged == /\ compares
                        /\ Gt(compute_temporal_consistency(d[1], d[2]), R(6, 10))
         IN  vid' = [vid EXCEPT
                       !.face_inconsistencies = Append1(@, flagged, vid.frame_idx),
                       !.compared = Append1(@, compares,
                                            <<vid.prev_frame_gray, vid.frame_idx>>),
                       !.prev_frame_gray = next_prev_frame_gray(@, vid.frame_idx),
                       !.frames_analyzed = @ + 1,
                       !.frame_idx = @ + 1]
    /\ pc' = "v_read"
    /\ UNCHANGED <<media, sub, failed, overall_score, result, detector>>
    /\ locals' = NoLocals
    /\ UNCHANGED <<users, requests>>

\* lines 88-120; frame_count / fps raises ZeroDivisionError when fps is 0
VideoFuse ==
    /\ pc = "v_fuse"
    /\ media' = [media EXCEPT !.released = TRUE]
    /\ sub' = video_scores(vid)
    /\ overall_score' = video_overall(video_scores(vid))
    /\ result' = IF vid.fps = 0 THEN ErrorResult("float division by zero")
                 ELSE video_result(video_scores(vid),
                                   video_overall(video_scores(vid)), vid)
    /\ pc' = "done"
    /\ UNCHANGED <<failed, vid, detector>>
    /\ locals' = NoLocals
    /\ UNCHANGED <<users, requests>>

-----------------------------------------------------------------------------

NoVid == [frame_idx |-> 0]

cascade_path == "haarcascade_frontalface_default.xml"

-----------------------------------------------------------------------------
(* Registration: routes/auth_routes.py register over database/user_db.py.
   Each client has at most one register request in flight; the handler is a
   coroutine, so requests interleave at its two awaits, get_user_by_email and
   create_user. Each of the two runs its statement on its own connection, which
   SQLite serialises. The password and the full name do not influence the
   outcome and are left out of the rows. *)

MaxClients == 3

Clients == 1..MaxClients

\* the values of UserRegister.email
Emails == {"a@example.com", "b@example.com"}

HTTP_200_OK == 200

HTTP_400_BAD_REQUEST == 400

\* the users table after CREATE TABLE IF NOT EXISTS on a new database
init_user_db == <<>>

NoRequest ==
    [pc |-> "idle", email |-> "", existing_user |-> FALSE, status |-> 0,
     detail |-> ""]

\* SELECT * FROM users WHERE email = ?: whether fetchone returns a row
get_user_by_email(table, email) ==
    \E i \in 1..Len(table) : table[i].email = email

\* INSERT INTO users without the UNIQUE constraint on email: a row is added
\* whatever the table holds
create_user_without_unique(table, email) ==
    [users |-> Append(table, [id |-> Len(table) + 1, email |-> email]),
     raises |-> ""]

\* INSERT INTO users: email is UNIQUE, so the insert of a present email raises
\* IntegrityError, which create_user turns into ValueError; otherwise the row
\* gets the next AUTOINCREMENT id
create_user(table, email) ==
    IF \E i \in 1..Len(table) : table[i].email = email
    THEN [users |-> table, raises |-> "User with this email already exists"]
    ELSE [users |-> Append(table, [id |-> Len(table) + 1, email |-> email]),
          raises |-> ""]

\* a register request arrives
RegisterRequest(c) ==
    /\ requests[c].pc = "idle"
    /\ \E email \in Emails :
          requests' = [requests EXCEPT ![c] = [NoRequest EXCEPT !.pc = "check",
                                                              !.email = email]]
    /\ UNCHANGED <<users, pc, media, sub, failed, vid, overall_score, result,
                   detector, locals>>

\* existing_user = await get_user_by_email(...); if existing_user: raise 400
RegisterGetUser(c) ==
    /\ requests[c].pc = "check"
    /\ LET existing_user == get_user_by_email(users, requests[c].email)
       IN  requests' = [requests EXCEPT ![c] =
               IF existing_user
               THEN [@ EXCEPT !.pc = "done", !.existing_user = TRUE,
                              !.status = HTTP_400_BAD_REQUEST,
                              !.detail = "Email already registered"]
               ELSE [@ EXCEPT !.pc = "create"]]
    /\ UNCHANGED <<users, pc, media, sub, failed, vid, overall_score, result,
                   detector, locals>>

\* new_user = await create_user(...); return UserResponse(...), or the
\* ValueError of create_user becomes a 400 with its message
RegisterCreateUser(c) ==
    /\ requests[c].pc = "create"
    /\ LET new_user == create_user(users, requests[c].email)
       IN  /\ users' = new_user.users
           /\ requests' = [requests EXCEPT ![c] =
                  IF new_user.raises = ""
                  THEN [@ EXCEPT !.pc = "done", !.status = HTTP_200_OK,
                                 !.detail = "User registered successfully"]
                  ELSE [@ EXCEPT !.pc = "done",
                                 !.status = HTTP_400_BAD_REQUEST,
                                 !.detail = new_user.raises]]
    /\ UNCHANGED <<pc, media, sub, failed, vid, overall_score, result,
                   detector, locals>>

\* the response is sent; the client may register again
RegisterRespond(c) ==
    /\ requests[c].pc = "done"
    /\ requests' = [requests EXCEPT ![c] = NoRequest]
    /\ UNCHANGED <<users, pc, media, sub, failed, vid, overall_score, result,
                   detector, locals>>

-----------------------------------------------------------------------------
(* The application *)

\* the three detector objects the application constructs once and shares among
\* all requests, with the fields their __init__ sets
detectors ==
    [video |-> [face_cascade |-> cascade_path],
     audio |-> [sample_rate |-> sample_rate],
     image |-> [face_cascade |-> cascade_path]]

Init ==
    /\ users = init_user_db
    /\ requests = [c \in Clients |-> NoRequest]
    /\ detector = detectors
    /\ locals = NoLocals
    /\ pc = "idle"
    /\ media = NoMedia
    /\ sub = NoSub
    /\ failed = {}
    /\ vid = NoVid
    /\ overall_score = Zero
    /\ result = NoResult

\* the coroutine has returned; the next request starts from fresh locals, on
\* the same detector objects
Return ==
    /\ pc = "done"
    /\ UNCHANGED detector
    /\ locals' = NoLocals
    /\ UNCHANGED <<users, requests>>
    /\ pc' = "idle"
    /\ media' = NoMedia
    /\ sub' = NoSub
    /\ failed' = {}
    /\ vid' = NoVid
    /\ overall_score' = Zero
    /\ result' = NoResult

Next ==
    \/ AudioLoad \/ AudioSpectral \/ AudioTemporal \/ AudioVoice
    \/ AudioProsody \/ AudioFuse
    \/ ImageLoad \/ ImagePixel \/ ImageFrequency \/ ImageMetadata
    \/ ImageAI \/ ImageFace \/ ImageFuse
    \/ VideoOpen \/ VideoRead \/ VideoFace \/ VideoTemporal \/ VideoFuse
    \/ Return

Spec == Init /\ [][Next]_vars

-----------------------------------------------------------------------------
(* The fusion step on its own: it starts where the extractors of an image or the
   read loop of a video have finished, with sub-scores drawn from a grid that
   holds every threshold of the fusion, the classifiers and the explanations. *)

ScoreGrid == {I(0), R(3, 10), R(5, 10), R(55, 100), R(6, 10), R(65, 100), R(7, 10), I(1)}

\* analyze at line 37, after the five extractors of a 640x480 image returned
ImageBeforeFusion ==
    {[media |-> [kind |-> "image", decoded |-> TRUE, w |-> 640, h |-> 480,
                 color_variance |-> I(500)],
      sub |-> [pixel |-> p, frequency |-> f,
               metadata |-> [suspicious |-> FALSE, indicators |-> <<>>],
               ai_generated |-> a, face |-> face_manipulation_check(fs, FALSE)],
      locals |-> face_manipulation_check_locals(fs, FALSE)] :
        p \in ScoreGrid, f \in ScoreGrid, a \in ScoreGrid,
        fs \in SeqsUpTo({I(0), I(200), I(1000)}, 1)}

\* analyze_video at line 88, after the loop read the 20 frames of a video, found
\* one face and recorded k flags
VideoBeforeFusion ==
    {[frame_count |-> 20, fps |-> 25, sample_rate |-> 1, frames_analyzed |-> 20,
      anomaly_scores |-> AppendScore(EmptyScores, a),
      face_inconsistencies |-> [i \in 1..k |-> 19],
      compression_artifacts |-> AppendScore(EmptyScores, c),
      frame_idx |-> 20, prev_frame_gray |-> 19,
      sampled |-> [i \in 1..20 |-> i - 1],
      compared |-> [i \in 1..19 |-> <<i - 1, i>>],
      faces |-> 0] :
        a \in ScoreGrid, c \in ScoreGrid, k \in 0..20}

FusionInit ==
    /\ users = init_user_db
    /\ requests = [c \in Clients |-> NoRequest]
    /\ detector = detectors
    /\ failed = {}
    /\ overall_score = Zero
    /\ result = NoResult
    /\ \/ /\ pc = "i_fuse"
          /\ vid = NoVid
          /\ \E st \in ImageBeforeFusion :
                media = st.media /\ sub = st.sub /\ locals = st.locals
       \/ /\ pc = "v_fuse"
          /\ media = Capture([opened |-> TRUE, frame_count |-> 20, fps |-> 25,
                              readable |-> 20, scene |-> "any"])
          /\ sub = NoSub
          /\ locals = NoLocals
          /\ vid \in VideoBeforeFusion

FusionNext == ImageFuse \/ VideoFuse \/ Return

FusionSpec == FusionInit /\ [][FusionNext]_vars

-----------------------------------------------------------------------------
(* Concurrent register requests on an empty users table, no analysis running *)

RegisterInit == Init

RegisterNext ==
    \E c \in Clients :
        \/ RegisterRequest(c)
        \/ RegisterGetUser(c)
        \/ RegisterCreateUser(c)
        \/ RegisterRespond(c)

RegisterSpec == RegisterInit /\ [][RegisterNext]_vars

-----------------------------------------------------------------------------
(* Properties *)

Succeeded(kind) == pc = "done" /\ media.kind = kind /\ IsSuccess(result)

Threshold(kind) == IF kind = "image" THEN R(60, 100) ELSE R(55, 100)

\* C1: in every successful video result temporal_inconsistency lies in [0,1] and
\* so does the overall score 0.40*anomaly + 0.35*temporal_inconsistency +
\* 0.25*compression, whatever the faces per frame and the flags raised.
C1_VideoScoresInUnit ==
    Succeeded("video") =>
        /\ InUnit(result.details.temporal_inconsistency)
        /\ InUnit(overall_score)

\* C2: for audio and image every numeric sub-score, as soon as its extractor has
\* returned (normally or through a fallback), lies in [0,1], and so does the
\* weighted overall score of a successful result.
C2_SubScoresInUnit ==
    /\ media.kind \in {"audio", "image"} =>
           \A k \in DOMAIN sub \ {"metadata"} : InUnit(sub[k])
    /\ Succeeded("audio") =>
           /\ InUnit(result.details.spectral_anomaly_score)
           /\ InUnit(result.details.temporal_anomaly_score)
           /\ InUnit(result.details.voice_consistency_score)
           /\ InUnit(result.details.prosody_score)
           /\ InUnit(overall_score)
    /\ Succeeded("image") =>
           /\ InUnit(result.details.pixel_analysis_score)
           /\ InUnit(result.details.frequency_analysis_score)
           /\ InUnit(result.details.ai_generated_score)
           /\ InUnit(result.details.face_manipulation_score)
           /\ InUnit(overall_score)

\* an audio result on the raw-float path in which an extractor fell back and the
\* spectral score was capped at 1.0
C2_Witness ==
    /\ Succeeded("audio")
    /\ media.path = "raw"
    /\ failed # {}
    /\ result.details.spectral_anomaly_score = One

\* C3: in a successful result confidence = min(0.98, overall_score); in an error
\* result confidence = 0.0; so confidence is in [0, 0.98] in every result.
C3_Confidence ==
    pc = "done" =>
        /\ IsSuccess(result) =>
               result.confidence =
                   (IF Gt(overall_score, R(98, 100)) THEN R(98, 100) ELSE overall_score)
        /\ IsError(result) => result.confidence = Zero
        /\ Le(Zero, result.confidence) /\ Le(result.confidence, R(98, 100))

\* an audio result whose overall score exceeds 0.98
C3_Witness ==
    /\ Succeeded("audio")
    /\ Gt(overall_score, R(98, 100))
    /\ result.confidence = R(98, 100)

\* C4: is_deepfake is true exactly when overall_score is strictly greater than the
\* modality threshold (audio 0.55, image 0.60, video 0.55).
C4_StrictThreshold ==
    \A kind \in {"audio", "image", "video"} :
        Succeeded(kind) => (result.is_deepfake <=> Gt(overall_score, Threshold(kind)))

\* an audio result whose overall score is exactly 0.55
C4_Witness ==
    /\ Succeeded("audio")
    /\ overall_score = R(55, 100)
    /\ ~result.is_deepfake

\* C5: the video label is that of the first rule that holds, in the order
\* face_swap, lip_sync, face_reenactment, ai_generated, else none.
C5_VideoRuleOrder ==
    Succeeded("video") =>
        LET a == result.details.anomaly_score
            t == result.details.temporal_inconsistency
            c == result.details.compression_artifacts
            face_swap == Gt(a, R(7, 10)) /\ Gt(t, R(4, 10))
            lip_sync == Gt(t, R(5, 10))
            face_reenactment == Gt(a, R(6, 10))
            ai_generated == Gt(c, R(6, 10))
            label == result.manipulation_type
        IN  /\ face_swap => label = "face_swap"
            /\ ~face_swap /\ lip_sync => label = "lip_sync"
            /\ ~face_swap /\ ~lip_sync /\ face_reenactment => label = "face_reenactment"
            /\ ~face_swap /\ ~lip_sync /\ ~face_reenactment /\ ai_generated
                   => label = "ai_generated"
            /\ ~face_swap /\ ~lip_sync /\ ~face_reenactment /\ ~ai_generated
                   => label = "none"

\* a video result in which the face_swap, lip_sync and face_reenactment rules all hold
C5_Witness ==
    /\ Succeeded("video")
    /\ Gt(result.details.anomaly_score, R(7, 10))
    /\ Gt(result.details.temporal_inconsistency, R(5, 10))
    /\ result.manipulation_type = "face_swap"

\* C6: the audio label is that of the first rule that holds in the order
\* voice_cloning, synthesized_speech, edited, authentic; the image label in the
\* order ai_generated, face_manipulation, edited, authentic.
C6_AudioImageRuleOrder ==
    /\ Succeeded("audio") =>
           LET s == result.details.spectral_anomaly_score
               v == result.details.voice_consistency_score
               voice_cloning == Gt(v, R(75, 100))
               synthesized == Gt(s, R(65, 100))
               edited == Gt(s, R(45, 100)) \/ Gt(v, R(45, 100))
               label == result.manipulation_type
           IN  /\ voice_cloning => label = "voice_cloning"
               /\ ~voice_cloning /\ synthesized => label = "synthesized_speech"
               /\ ~voice_cloning /\ ~synthesized /\ edited => label = "edited"
               /\ ~voice_cloning /\ ~synthesized /\ ~edited => label = "authentic"
    /\ Succeeded("image") =>
           LET ai == result.details.ai_generated_score
               face == result.details.face_manipulation_score
               pixel == result.details.pixel_analysis_score
               ai_generated == Gt(ai, R(7, 10))
               face_manipulation == Gt(face, R(65, 100))
               edited == Gt(pixel, R(65, 100))
               label == result.manipulation_type
           IN  /\ ai_generated => label = "ai_generated"
               /\ ~ai_generated /\ face_manipulation => label = "face_manipulation"
               /\ ~ai_generated /\ ~face_manipulation /\ edited => label = "edited"
               /\ ~ai_generated /\ ~face_manipulation /\ ~edited => label = "authentic"

\* an audio result in which the voice_cloning, synthesized_speech and edited rules
\* all hold
C6_Witness ==
    /\ Succeeded("audio")
    /\ Gt(result.details.voice_consistency_score, R(75, 100))
    /\ Gt(result.details.spectral_anomaly_score, R(65, 100))
    /\ result.manipulation_type = "voice_cloning"

Labels(kind) ==
    IF kind = "video"
    THEN {"face_swap", "lip_sync", "face_reenactment", "ai_generated", "none"}
    ELSE IF kind = "audio"
    THEN {"voice_cloning", "synthesized_speech", "edited", "authentic"}
    ELSE {"ai_generated", "face_manipulation", "edited", "authentic"}

DefaultLabel(kind) == IF kind = "video" THEN "none" ELSE "authentic"

\* whether some rule condition of the modality's classifier holds for the result
SomeRuleHolds(kind, r) ==
    IF kind = "video"
    THEN \/ Gt(r.details.temporal_inconsistency, R(5, 10))
         \/ Gt(r.details.anomaly_score, R(6, 10))
         \/ Gt(r.details.compression_artifacts, R(6, 10))
         \/ (Gt(r.details.anomaly_score, R(7, 10))
                /\ Gt(r.details.temporal_inconsistency, R(4, 10)))
    ELSE IF kind = "audio"
    THEN \/ Gt(r.details.voice_consistency_score, R(45, 100))
         \/ Gt(r.details.spectral_anomaly_score, R(45, 100))
    ELSE \/ Gt(r.details.ai_generated_score, R(7, 10))
         \/ Gt(r.details.face_manipulation_score, R(65, 100))
         \/ Gt(r.details.pixel_analysis_score, R(65, 100))

\* C7: in every successful result manipulation_type is in the modality's closed set,
\* and it is the default (none for video, authentic for audio and image) exactly
\* when no rule condition holds.
C7_ClosedLabelSet ==
    \A kind \in {"audio", "image", "video"} :
        Succeeded(kind) =>
            /\ result.manipulation_type \in Labels(kind)
            /\ result.manipulation_type = DefaultLabel(kind)
                   <=> ~SomeRuleHolds(kind, result)

\* an image result for which no rule condition holds
C7_Witness ==
    /\ Succeeded("image")
    /\ ~SomeRuleHolds("image", result)
    /\ result.manipulation_type = "authentic"

AuthenticMessage(kind) ==
    IF kind = "video" THEN VideoAuthenticMessage
    ELSE IF kind = "audio" THEN AudioAuthenticMessage
    ELSE ImageAuthenticMessage

\* C8: in every successful result, when is_deepfake is false the explanation is the
\* modality's fixed authentic-content message, and when is_deepfake is true the
\* explanation is a non-empty string.
C8_Explanation ==
    \A kind \in {"audio", "image", "video"} :
        Succeeded(kind) =>
            /\ ~result.is_deepfake => result.explanation = AuthenticMessage(kind)
            /\ result.is_deepfake => Len(result.explanation) > 0

\* a positive audio result in which no sub-score passes its explanation threshold
C8_Witness ==
    /\ Succeeded("audio")
    /\ result.is_deepfake
    /\ ~Gt(result.details.voice_consistency_score, R(65, 100))
    /\ ~Gt(result.details.spectral_anomaly_score, R(55, 100))
    /\ ~Gt(result.details.temporal_anomaly_score, R(55, 100))
    /\ Len(result.explanation) > 0

AudioDetailKeys ==
    {"spectral_anomaly_score", "temporal_anomaly_score", "voice_consistency_score",
     "prosody_score", "duration", "sample_rate"}

ImageDetailKeys ==
    {"pixel_analysis_score", "frequency_analysis_score", "ai_generated_score",
     "face_manipulation_score", "metadata_suspicious", "image_dimensions",
     "file_format"}

\* the detail entry that reports an extractor's sub-score
DetailOf(r, extractor) ==
    CASE extractor = "spectral" -> r.details.spectral_anomaly_score
      [] extractor = "temporal" -> r.details.temporal_anomaly_score
      [] extractor = "voice_consistency" -> r.details.voice_consistency_score
      [] extractor = "prosody" -> r.details.prosody_score
      [] extractor = "pixel" -> r.details.pixel_analysis_score
      [] extractor = "frequency" -> r.details.frequency_analysis_score
      [] extractor = "ai_generated" -> r.details.ai_generated_score
      [] extractor = "face" -> r.details.face_manipulation_score

\* C9: when extractors fail inside an analysis of decodable audio or image, the
\* analysis still ends with a successful record, each failed extractor's sub-score
\* is its fallback constant (0.3; not suspicious for the metadata), and details
\* has the key set it has when nothing fails.
C9_ExtractorFailure ==
    /\ (pc = "done" /\ media.kind = "audio" /\ media.path # "none" /\ media.len > 0)
           => IsSuccess(result) /\ ~IsError(result)
    /\ (pc = "done" /\ media.kind = "image" /\ media.decoded)
           => IsSuccess(result) /\ ~IsError(result)
    /\ Succeeded("audio") => DOMAIN result.details = AudioDetailKeys
    /\ Succeeded("image") => DOMAIN result.details = ImageDetailKeys
    /\ \A kind \in {"audio", "image"} :
           Succeeded(kind) =>
               \A x \in failed :
                   IF x = "metadata" THEN ~result.details.metadata_suspicious
                   ELSE DetailOf(result, x) = R(3, 10)

\* an audio result of an analysis in which the temporal extractor failed, and only it
C9_Witness ==
    /\ Succeeded("audio")
    /\ failed = {"temporal"}
    /\ result.details.temporal_anomaly_score = R(3, 10)

\* the decode failures the claim lists
DecodeFailureListed ==
    \/ media.kind = "audio" /\ (media.path = "none" \/ media.len = 0)
    \/ media.kind = "image" /\ ~media.decoded
    \/ media.kind = "video" /\ ~media.opened

\* a capture that opened and reports no frames or no frame rate
InvalidVideo ==
    media.kind = "video" /\ media.opened /\ (media.frame_count = 0 \/ media.fps = 0)

ErrorShape(r) ==
    /\ DOMAIN r = {"error", "is_deepfake", "confidence"}
    /\ ~r.is_deepfake
    /\ r.confidence = Zero
    /\ Len(r.error) > 0

\* C10 as stated: undecodable media (audio that neither path reads or that has no
\* samples, an image or a video that cannot be opened) yields the error record,
\* and that is the only way an analysis ends without sub-scores.
C10_Original ==
    pc = "done" =>
        /\ DecodeFailureListed => ErrorShape(result)
        /\ ~IsSuccess(result) => DecodeFailureListed

\* C10 amended: the decode failures also include a video that opens and reports a
\* frame count of 0 or a frame rate of 0.
C10_DecodeFailure ==
    pc = "done" =>
        /\ (DecodeFailureListed \/ InvalidVideo) => ErrorShape(result)
        /\ ~IsSuccess(result) => (DecodeFailureListed \/ InvalidVideo)
        /\ IsSuccess(result) \/ IsError(result)

\* an error record returned for a video that opened
C10_Witness ==
    /\ pc = "done"
    /\ InvalidVideo
    /\ ErrorShape(result)

-----------------------------------------------------------------------------
(* Persistent state *)

-----------------------------------------------------------------------------
(* The audio loader and the voice-consistency extractor *)

\* the voice-consistency extractor has just returned without raising
VoiceReturned ==
    pc = "a_prosody" /\ "voice_consistency" \notin failed

\* a silent 5-second 16 kHz waveform: 80,000 samples, all zero
SilentFiveSeconds ==
    /\ media.kind = "audio" /\ media.path = "wav"
    /\ media.rate = 16000 /\ media.len = 80000
    /\ media.lo = Zero /\ media.hi = Zero

\* C12 as stated: on the silent 5-second 16 kHz waveform the voice-consistency
\* extractor returns its fallback 0.3.
C12_Original ==
    (VoiceReturned /\ SilentFiveSeconds) => sub.voice_consistency = R(3, 10)

\* C12 amended: on the silent 5-second 16 kHz waveform the extractor finds two
\* full segments with equal features, so consistency is 1.0 and it returns 1.0.
C12_SilentWaveform ==
    (VoiceReturned /\ SilentFiveSeconds) =>
        /\ locals.num_segments = 2
        /\ locals.consistency = One
        /\ sub.voice_consistency = One

C12_Witness ==
    /\ VoiceReturned
    /\ SilentFiveSeconds
    /\ sub.voice_consistency = One

\* C18: a waveform loaded from a WAV file of n frames at rate r holds
\* n * 16000 / r samples to within one sample, and a successful result reports
\* the source duration n / r.
C18_ResampledLength ==
    (media.kind = "audio" /\ media.path = "wav") =>
        /\ AbsI(media.len * media.rate - media.n_frames * 16000) <= media.rate
        /\ Succeeded("audio") =>
               result.details.duration
                   = Fixed2(R(media.n_frames, media.rate)) \o "s"

\* C19: every sample of a waveform loaded from a WAV file lies in [-1, 1].
C19_SamplesInRange ==
    (media.kind = "audio" /\ media.path = "wav" /\ media.len > 0) =>
        /\ Le(I(-1), media.lo)
        /\ Le(media.hi, One)

\* C20: with consistency = 1 - mean(feature_stds), the voice-consistency
\* extractor returns consistency when consistency > 0.95 and
\* max(0, (consistency - 0.7) * 2) otherwise; on fewer than 2 full 2-second
\* segments it returns 0.3 and computes no consistency.
C20_VoiceConsistencyRule ==
    VoiceReturned =>
        IF media.len < 2 * (2 * 16000)
        THEN /\ sub.voice_consistency = R(3, 10)
             /\ "consistency" \notin DOMAIN locals
        ELSE /\ "consistency" \in DOMAIN locals
             /\ sub.voice_consistency
                    = IF Gt(locals.consistency, R(95, 100))
                      THEN locals.consistency
                      ELSE PyMax(Zero, Mul(Sub(locals.consistency, R(7, 10)), I(2)))

\* the extractor has returned a consistency of exactly 0.95 through the second
\* rule, as 0.5
C20_Witness ==
    /\ VoiceReturned
    /\ "consistency" \in DOMAIN locals
    /\ locals.consistency = R(95, 100)
    /\ sub.voice_consistency = R(1, 2)

-----------------------------------------------------------------------------
(* The image extractors and the metadata signal *)

\* the AI-generation extractor has just returned without raising
AIReturned ==
    pc = "i_face" /\ "ai_generated" \notin failed

\* a decoded 64x64 image of one solid colour
SolidGray64 ==
    /\ media.kind = "image" /\ media.decoded
    /\ media.w = 64 /\ media.h = 64
    /\ media.color_variance = I(0)

\* C13 as stated: on a 64x64 solid-gray image the flat blocks count as highly
\* correlated with their neighbours, so the block-similarity component is high
\* and the ai_generated_score is high.
C13_Original ==
    (AIReturned /\ SolidGray64) =>
        /\ locals.n_block_similarities > 0
        /\ Gt(locals.avg_similarity, R(1, 2))
        /\ Gt(sub.ai_generated, R(1, 2))

\* C13 amended: on a 64x64 solid-gray image no block is compared with a
\* neighbour, the block-similarity component is its default 0.3, and the
\* ai_generated_score is low: 0.09 (0.15 if the JPEG helper fell back), below the
\* 0.7 cutoff of the ai_generated rule.
C13_SolidGray ==
    (AIReturned /\ SolidGray64) =>
        /\ locals.n_block_similarities = 0
        /\ locals.avg_similarity = R(3, 10)
        /\ locals.jpeg_artifacts \in {Zero, R(3, 10)}
        /\ locals.jpeg_artifacts = Zero => sub.ai_generated = R(9, 100)
        /\ locals.jpeg_artifacts = R(3, 10) => sub.ai_generated = R(15, 100)
        /\ ~Gt(sub.ai_generated, R(7, 10))

C13_Witness ==
    /\ AIReturned
    /\ SolidGray64
    /\ sub.ai_generated = R(9, 100)

\* C14: in a successful image result overall_score, confidence, is_deepfake and
\* manipulation_type are functions of the four numeric sub-scores alone, so
\* results that differ only in the metadata signal agree on them.
C14_MetadataNotFused ==
    Succeeded("image") =>
        LET d == result.details
            fused == Add(Add(Mul(d.pixel_analysis_score, R(25, 100)),
                             Mul(d.frequency_analysis_score, R(25, 100))),
                         Add(Mul(d.ai_generated_score, R(30, 100)),
                             Mul(d.face_manipulation_score, R(20, 100))))
        IN  /\ overall_score = fused
            /\ result.confidence = PyMin(R(98, 100), fused)
            /\ result.is_deepfake = Gt(fused, R(60, 100))
            /\ result.manipulation_type =
                   (IF Gt(d.ai_generated_score, R(7, 10)) THEN "ai_generated"
                    ELSE IF Gt(d.face_manipulation_score, R(65, 100))
                         THEN "face_manipulation"
                    ELSE IF Gt(d.pixel_analysis_score, R(65, 100)) THEN "edited"
                    ELSE "authentic")

\* a negative image result whose metadata was flagged suspicious
C14_Witness ==
    /\ Succeeded("image")
    /\ result.details.metadata_suspicious
    /\ sub.metadata.indicators # <<>>
    /\ ~result.is_deepfake

\* the explanation of a positive image result with these sub-scores when the
\* metadata is not suspicious
UnsuspiciousExplanation(d) ==
    generate_image_explanation(TRUE, d.pixel_analysis_score,
        d.frequency_analysis_score, d.ai_generated_score, d.face_manipulation_score)

\* C15: the explanation of a positive image result reflects the metadata flag:
\* it is the explanation of the numeric sub-scores alone exactly when the
\* metadata was not flagged suspicious.
C15_ExplanationReflectsMetadata ==
    (Succeeded("image") /\ result.is_deepfake) =>
        (result.details.metadata_suspicious
             <=> result.explanation # UnsuspiciousExplanation(result.details))

-----------------------------------------------------------------------------
(* Opening the video *)

\* C16: a video that cannot be opened, or reports a frame count of 0 or a frame
\* rate of 0, ends in the error record, and no frame of it is read or scored.
C16_VideoOpenError ==
    (media.kind = "video" /\ (~media.opened \/ media.frame_count = 0 \/ media.fps = 0))
        => /\ pc = "done"
           /\ ErrorShape(result)
           /\ vid = NoVid
           /\ sub = NoSub
           /\ ~media.released

\* a video with readable frames and a frame rate of 0 ends in the error record
C16_Witness ==
    /\ pc = "done"
    /\ media.kind = "video" /\ media.opened
    /\ media.fps = 0 /\ media.frame_count > 0 /\ media.readable > 0
    /\ ErrorShape(result)

-----------------------------------------------------------------------------
(* Explanation fragments *)

\* the sub-scores a modality explains, in its order, each with its explanation
\* threshold and the words around the percentage
ExplainedScores(kind, d) ==
    IF kind = "audio"
    THEN << <<d.voice_consistency_score, R(65, 100),
              "Unusually consistent voice patterns (",
              ") suggest possible voice cloning or TTS">>,
            <<d.spectral_anomaly_score, R(55, 100), "Spectral anomalies (",
              ") indicate potential synthetic speech generation">>,
            <<d.temporal_anomaly_score, R(55, 100),
              "Unnatural temporal transitions (", ") detected in audio signal">> >>
    ELSE IF kind = "image"
    THEN << <<d.ai_generated_score, R(65, 100), "High AI-generation indicators (",
              ") - likely created by generative model">>,
            <<d.face_manipulation_score, R(60, 100), "Face manipulation artifacts (",
              ") detected at facial boundaries">>,
            <<d.pixel_analysis_score, R(55, 100), "Pixel-level anomalies (",
              ") indicate editing or manipulation">>,
            <<d.frequency_analysis_score, R(55, 100), "Frequency domain signatures (",
              ") consistent with synthetic content">> >>
    ELSE << <<d.anomaly_score, R(55, 100), "Facial anomaly score (",
              ") indicates potential manipulation or unusual visual patterns">>,
            <<d.temporal_inconsistency, R(3, 10), "Temporal inconsistencies (",
              ") detected across video frames suggesting frame-by-frame editing">>,
            <<d.compression_artifacts, R(5, 10), "Compression artifacts (",
              ") consistent with AI-generated or heavily edited content">> >>

GenericSentence(kind) ==
    IF kind = "audio" THEN "Voice manipulation or synthesis detected in audio analysis"
    ELSE IF kind = "image" THEN "Manipulation or AI generation detected"
    ELSE "Manipulation indicators detected in video analysis"

\* the fragments of the entries of es whose score strictly exceeds its threshold
RECURSIVE Qualifying(_)
Qualifying(es) ==
    IF Len(es) = 0 THEN <<>>
    ELSE LET e == es[1]
         IN  (IF Gt(e[1], e[2]) THEN <<e[3] \o Pct(e[1]) \o e[4]>> ELSE <<>>)
                 \o Qualifying(Tail(es))

\* q[1] | q[2] | ... for a non-empty q
RECURSIVE Joined(_)
Joined(q) ==
    IF Len(q) = 1 THEN q[1] ELSE q[1] \o " | " \o Joined(Tail(q))

\* C17: the explanation of a positive result is the fragments of the sub-scores
\* that strictly exceed their explanation thresholds, in the modality's fixed
\* order, joined by " | "; it is the generic sentence when none qualifies.
C17_ExplanationFragments ==
    \A kind \in {"audio", "image", "video"} :
        (Succeeded(kind) /\ result.is_deepfake) =>
            LET q == Qualifying(ExplainedScores(kind, result.details))
            IN  result.explanation
                    = IF Len(q) = 0 THEN GenericSentence(kind) ELSE Joined(q)

\* a positive image result explained by the AI fragment followed by the face
\* fragment
C17_Witness ==
    /\ Succeeded("image")
    /\ result.is_deepfake
    /\ Gt(result.details.ai_generated_score, R(65, 100))
    /\ Gt(result.details.face_manipulation_score, R(60, 100))
    /\ Len(Qualifying(ExplainedScores("image", result.details))) >= 2

-----------------------------------------------------------------------------
(* The image face-boundary extractor *)

\* the sum over the faces of max(0, 1 - edge_variance / 500)
RECURSIVE SumFaceScores(_)
SumFaceScores(evs) ==
    IF Len(evs) = 0 THEN Zero
    ELSE LET x == Sub(One, Div(evs[1], I(500)))
         IN  Add(IF Lt(x, Zero) THEN Zero ELSE x, SumFaceScores(Tail(evs)))

\* C21: the face-boundary extractor returns 0.2 when the face detector reports no
\* region, and otherwise the average over all detected regions of
\* max(0, 1 - edge_variance / 500).
C21_FaceBoundary ==
    (pc = "i_fuse" /\ "face" \notin failed) =>
        sub.face = IF Len(locals.faces) = 0 THEN R(2, 10)
                   ELSE Div(SumFaceScores(locals.faces), I(Len(locals.faces)))

\* two faces, one of them with an edge variance above 500, average to 0.3
C21_Witness ==
    /\ pc = "i_fuse" /\ "face" \notin failed
    /\ Len(locals.faces) = 2
    /\ \E i \in 1..2 : Gt(locals.faces[i], I(500))
    /\ sub.face = R(3, 10)

-----------------------------------------------------------------------------
(* Sampling the video *)

\* the capture opened and reported at least one frame and a frame rate
VideoRunning ==
    media.kind = "video" /\ media.opened /\ media.frame_count >= 1 /\ media.fps # 0

\* the read loop has ended
LoopEnded == pc \in {"v_fuse", "done"}

DivisionByZero ==
    {"integer division or modulo by zero", "float division by zero"}

\* C22: for a video reporting at least one frame the stride is at least 1 and
\* nothing divides by zero; a clip shorter than 30 frames has every frame
\* sampled, a readable frame means at least one analysed frame, and with no
\* readable frame frames_analyzed and temporal_inconsistency are 0.
C22_SamplingStride ==
    /\ (media.kind = "video" /\ media.frame_count >= 1 /\ IsError(result))
           => result.error \notin DivisionByZero
    /\ VideoRunning =>
           /\ vid.sample_rate >= 1
           /\ LoopEnded =>
                  /\ media.frame_count < 30 => vid.frames_analyzed = media.readable
                  /\ media.readable >= 1 => vid.frames_analyzed >= 1
                  /\ media.readable = 0 => vid.frames_analyzed = 0
           /\ pc = "done" =>
                  /\ IsSuccess(result)
                  /\ media.readable = 0 =>
                         /\ result.details.frames_analyzed = 0
                         /\ result.details.temporal_inconsistency = Zero

\* a successful result for a video that reports frames and yields none
C22_Witness ==
    /\ Succeeded("video")
    /\ media.frame_count >= 1 /\ media.readable = 0
    /\ result.details.frames_analyzed = 0
    /\ result.details.temporal_inconsistency = Zero

\* C23: the sampled frames are visited in increasing index order; each sampled
\* frame but the first is compared once, with the sampled frame just before it,
\* and the first is compared with nothing.
C23_OrderedPass ==
    (media.kind = "video" /\ "sampled" \in DOMAIN vid) =>
        /\ \A i \in 1..(Len(vid.sampled) - 1) : vid.sampled[i] < vid.sampled[i + 1]
        /\ Len(vid.compared)
               = IF vid.frames_analyzed = 0 THEN 0 ELSE vid.frames_analyzed - 1
        /\ \A k \in 1..Len(vid.compared) :
               vid.compared[k] = <<vid.sampled[k], vid.sampled[k + 1]>>

\* with stride 2, frame 4 has been compared with frame 2 and frame 2 with frame 0
C23_Witness ==
    /\ media.kind = "video" /\ "sampled" \in DOMAIN vid
    /\ vid.sample_rate = 2
    /\ Len(vid.compared) >= 2
    /\ vid.compared[1] = <<0, 2>>
    /\ vid.compared[2] = <<2, 4>>

\* every reported frame of the video has been read
AllFramesRead ==
    VideoRunning /\ LoopEnded /\ media.readable = media.frame_count

\* C29: when all N reported frames are readable, the sampled frames are the
\* indices divisible by stride = max(1, N // 30), frame 0 among them, and
\* frames_analyzed = ceil(N / stride), at least min(N, 30) and at most 59.
C29_SampledFrames ==
    AllFramesRead =>
        LET N == media.frame_count
            stride == IF N \div 30 > 1 THEN N \div 30 ELSE 1
        IN  /\ vid.sampled[1] = 0
            /\ {vid.sampled[k] : k \in 1..Len(vid.sampled)}
                   = {i \in 0..(N - 1) : i % stride = 0}
            /\ vid.frames_analyzed = Len(vid.sampled)
            /\ vid.frames_analyzed = (N + stride - 1) \div stride
            /\ vid.frames_analyzed >= (IF N < 30 THEN N ELSE 30)
            /\ vid.frames_analyzed <= 59

\* 59 readable frames are all analysed
C29_Witness ==
    /\ AllFramesRead
    /\ media.frame_count = 59
    /\ vid.frames_analyzed = 59

\* C25: a video with no face in any sampled frame is never classified as a
\* deepfake: anomaly and compression are 0.3, at most frames_analyzed - 1 flags
\* are recorded, and overall_score stays below 0.55.
C25_NoFaceNeverDeepfake ==
    (Succeeded("video") /\ vid.anomaly_scores.len = 0) =>
        /\ result.details.anomaly_score = R(3, 10)
        /\ result.details.compression_artifacts = R(3, 10)
        /\ result.details.face_inconsistencies
               <= (IF vid.frames_analyzed = 0 THEN 0 ELSE vid.frames_analyzed - 1)
        /\ Lt(overall_score, R(55, 100))
        /\ ~result.is_deepfake

\* a faceless video flagged at every comparison scores above 0.53
C25_Witness ==
    /\ Succeeded("video")
    /\ vid.anomaly_scores.len = 0
    /\ result.details.face_inconsistencies = vid.frames_analyzed - 1
    /\ Gt(overall_score, R(53, 100))

-----------------------------------------------------------------------------
(* The join before the fusion, and what the fusion can return *)

ExtractorKeys(kind) ==
    IF kind = "audio" THEN {"spectral", "temporal", "voice_consistency", "prosody"}
    ELSE IF kind = "image" THEN {"pixel", "frequency", "metadata", "ai_generated", "face"}
    ELSE {"anomaly", "temporal", "compression"}

\* C24: the fusion of a modality runs only when every extractor of it has
\* returned its sub-score (for video: when the read loop has ended), no fused
\* value exists before that, and a video result exists only with the capture
\* released.
C24_JoinBarrier ==
    /\ pc = "a_fuse" => DOMAIN sub = ExtractorKeys("audio")
    /\ pc = "i_fuse" => DOMAIN sub = ExtractorKeys("image")
    /\ pc = "v_fuse" => vid.frame_idx >= media.readable
    /\ pc # "done" => (overall_score = Zero /\ result = NoResult)
    /\ \A kind \in {"audio", "image", "video"} :
           Succeeded(kind) => DOMAIN sub = ExtractorKeys(kind)
    /\ Succeeded("video") =>
           /\ media.released
           /\ vid.frame_idx >= media.readable
           /\ vid.faces = 0

\* a video result computed after two frames were analysed and the capture released
C24_Witness ==
    /\ Succeeded("video")
    /\ media.released
    /\ vid.frames_analyzed >= 2
    /\ DOMAIN sub = ExtractorKeys("video")

\* no sub-score of the details d exceeds its explanation threshold
NoneQualifies(kind, d) ==
    LET es == ExplainedScores(kind, d)
    IN  \A i \in 1..Len(es) : ~Gt(es[i][1], es[i][2])

\* C26: a positive image or video result has a sub-score above its explanation
\* threshold, so its explanation is never the generic sentence: with every
\* sub-score at or below its explanation threshold the overall score is at most
\* 0.59 for an image and 0.45 for a video.
C26_GenericUnreachable ==
    \A kind \in {"image", "video"} :
        Succeeded(kind) =>
            /\ result.is_deepfake =>
                   /\ ~NoneQualifies(kind, result.details)
                   /\ result.explanation # GenericSentence(kind)
            /\ NoneQualifies(kind, result.details) =>
                   Le(overall_score, IF kind = "image" THEN R(59, 100) ELSE R(45, 100))

\* an image result with every sub-score at its explanation threshold: 0.59
C26_Witness ==
    /\ Succeeded("image")
    /\ NoneQualifies("image", result.details)
    /\ overall_score = R(59, 100)
    /\ ~result.is_deepfake

-----------------------------------------------------------------------------
(* Labels and verdicts *)

\* C27: the voice-consistency sub-score is never in (0.5, 0.95]: it is in
\* [0, 0.5] or in (0.95, 1]; so in a successful audio result is_voice_cloned
\* (score > 0.7) holds exactly when manipulation_type is voice_cloning
\* (score > 0.75).
C27_VoiceScoreGap ==
    /\ (media.kind = "audio" /\ "voice_consistency" \in DOMAIN sub) =>
           \/ Le(Zero, sub.voice_consistency) /\ Le(sub.voice_consistency, R(1, 2))
           \/ Gt(sub.voice_consistency, R(95, 100)) /\ Le(sub.voice_consistency, One)
    /\ Succeeded("audio") =>
           (result.is_voice_cloned <=> result.manipulation_type = "voice_cloning")

\* both sides of the gap: a consistency of 0.96 is returned as it is and labelled
\* voice_cloning
C27_Witness ==
    /\ Succeeded("audio")
    /\ result.details.voice_consistency_score = R(96, 100)
    /\ result.is_voice_cloned
    /\ result.manipulation_type = "voice_cloning"

\* the label the sub-scores of the details d determine
LabelOf(kind, d) ==
    IF kind = "audio"
    THEN (IF Gt(d.voice_consistency_score, R(75, 100)) THEN "voice_cloning"
          ELSE IF Gt(d.spectral_anomaly_score, R(65, 100)) THEN "synthesized_speech"
          ELSE IF Gt(d.spectral_anomaly_score, R(45, 100))
                  \/ Gt(d.voice_consistency_score, R(45, 100)) THEN "edited"
          ELSE "authentic")
    ELSE IF kind = "image"
    THEN (IF Gt(d.ai_generated_score, R(7, 10)) THEN "ai_generated"
          ELSE IF Gt(d.face_manipulation_score, R(65, 100)) THEN "face_manipulation"
          ELSE IF Gt(d.pixel_analysis_score, R(65, 100)) THEN "edited"
          ELSE "authentic")
    ELSE (IF Gt(d.anomaly_score, R(7, 10)) /\ Gt(d.temporal_inconsistency, R(4, 10))
          THEN "face_swap"
          ELSE IF Gt(d.temporal_inconsistency, R(5, 10)) THEN "lip_sync"
          ELSE IF Gt(d.anomaly_score, R(6, 10)) THEN "face_reenactment"
          ELSE IF Gt(d.compression_artifacts, R(6, 10)) THEN "ai_generated"
          ELSE "none")

\* C28: manipulation_type is determined by the sub-scores, whatever is_deepfake
\* is: a negative result keeps its non-default label and a positive result its
\* default label.
C28_LabelIgnoresVerdict ==
    \A kind \in {"audio", "image", "video"} :
        Succeeded(kind) => result.manipulation_type = LabelOf(kind, result.details)

\* a negative audio result labelled voice_cloning
C28_Witness ==
    /\ Succeeded("audio")
    /\ ~result.is_deepfake
    /\ ~Gt(overall_score, R(55, 100))
    /\ result.manipulation_type = "voice_cloning"

\* a positive result with the default label
PositiveWithDefaultLabel ==
    \E kind \in {"audio", "video"} :
        /\ Succeeded(kind)
        /\ result.is_deepfake
        /\ result.manipulation_type = DefaultLabel(kind)

-----------------------------------------------------------------------------
(* Registration *)

\* the rows of the users table with the email
RowsWith(email) == {i \in 1..Len(users) : users[i].email = email}

\* the request of c passed the existence check and its insert then failed
LostInsert(c) ==
    /\ requests[c].pc = "done"
    /\ ~requests[c].existing_user
    /\ requests[c].status # HTTP_200_OK

====
